---- MODULE Spec2Model ----
(***************************************************************************)
(* Model of salt/modules/win_useradd.py: management of local Windows user  *)
(* accounts through the `net user` / `net localgroup` commands.            *)
(*                                                                         *)
(* The machine's account database is the state the commands act on.  Every *)
(* module function is one call; functions that run a loop of commands      *)
(* (chgroups) advance one command per step, the others are one step.       *)
(* Every external command is recorded in `cmds` with its exit status,      *)
(* which the environment chooses.  A net localgroup command changes the    *)
(* membership exactly when it exits with 0; a failed field command changes *)
(* nothing.                                                                *)
(***************************************************************************)
EXTENDS Integers, Sequences, FiniteSets, TLC

\* ---------------------------------------------------------------- bounds
MaxDesired == 2
MaxValueLen == 7

\* ------------------------------------------------------------- universes
GroupNames == <<"Admins", "Users">>   \* the machine's local groups, ascending
Groups == {GroupNames[i] : i \in 1..Len(GroupNames)}
Names == {"alice"}
\* values the machine stores in a field, and values a caller may ask for ("b"
\* is a value the machine does not store as given)
Values == {"", "a"}
ReqValues == {"", "a", "b"}
RetCodes == {0, 2}

Rank(g) == CHOOSE i \in 1..Len(GroupNames) : GroupNames[i] = g

SeqsUpTo(S, n) == UNION {[1..k -> S] : k \in 0..n}
Range(s) == {s[i] : i \in 1..Len(s)}

\* all listings of a finite set without repetition
Perms(S) == {s \in [1..Cardinality(S) -> S] : Range(s) = S}

VARIABLES
  accounts,   \* the machine's local accounts: name -> account
  context,    \* __context__, the per-run dict
  pc,         \* position of the running call ("idle" between calls)
  func,       \* function of the running / last call
  args,       \* its arguments
  ret,        \* its outcome
  cmds,       \* external commands it has issued, in order
  pre_info,   \* chhome/chprofile/chfullname: pre_info
  post_info,  \* chhome/chprofile/chfullname: post_info
  ugrps,      \* chgroups: ugrps
  remq,       \* chgroups: groups the remove loop has still to visit
  addq,       \* chgroups: groups the add loop has still to visit
  agrps,      \* chgroups: agrps
  prev,       \* history: outcome of the call before, when the running / last
              \* call of chhome, chprofile or chfullname repeats it
  stdout,     \* text handed to the parsing code (specification SpecParse)
  parsed      \* what the parsing code made of stdout

vars == <<accounts, context, pc, func, args, ret, cmds,
          pre_info, post_info, ugrps, remq, addq, agrps, prev, stdout, parsed>>

\* ------------------------------------------------------ python values
EmptyDict == [k \in {} |-> ""]
NoArgs == [name |-> ""]
None == [tag |-> "none"]
Bool(b) == [tag |-> "bool", val |-> b]
Raise(e) == [tag |-> "raise", exc |-> e]
List(s) == [tag |-> "list", val |-> s]
Dict(d) == [tag |-> "dict", val |-> d]

\* bool(x) of a dict
Truthy(d) == DOMAIN d # {}

\* ------------------------------------------------------ the machine
NoAccount == [exists |-> FALSE, fullname |-> "", profile |-> "", home |-> "",
              groups |-> {}]
NewAccount == [exists |-> TRUE, fullname |-> "", profile |-> "", home |-> "",
               groups |-> {}]

\* what `net user <name>` can print, after the line parsing of info: either
\* the not-found message or the label -> value items; the order in which the
\* memberships are listed is the tool's
NetUser(db, name) ==
  IF ~db[name].exists
  THEN {[found |-> FALSE]}
  ELSE {[found |-> TRUE, fullname |-> db[name].fullname,
         profile |-> db[name].profile, home |-> db[name].home,
         name |-> name, groups |-> s] : s \in Perms(db[name].groups)}

ReadCmd(name) == [kind |-> "net user", name |-> name, arg |-> "", rc |-> 0]
MutCmd(kind, name, arg, rc) == [kind |-> kind, name |-> name, arg |-> arg, rc |-> rc]

MutatingKinds == {"/add", "/delete", "password", "localgroup /add",
                  "localgroup /delete", "/homedir", "/profilepath", "/fullname"}
Mutating(c) == c.kind \in MutatingKinds
NMut(s) == Cardinality({i \in 1..Len(s) : Mutating(s[i])})

\* ------------------------------------------------------ info, list_groups
info(out) ==
  IF ~out.found THEN EmptyDict
  ELSE [fullname |-> out.fullname, name |-> out.name, profile |-> out.profile,
        home |-> out.home, groups |-> out.groups, gid |-> ""]

RECURSIVE sorted(_)
sorted(S) ==
  IF S = {} THEN << >>
  ELSE LET m == CHOOSE x \in S : \A y \in S : Rank(x) <= Rank(y)
       IN <<m>> \o sorted(S \ {m})

list_groups(out) ==
  LET user == info(out)
  IN IF "groups" \notin DOMAIN user THEN Bool(FALSE)
     ELSE List(sorted(Range(user.groups)))

\* `not x` of an exit status
PyNot(rc) == rc = 0

NoPrev == [tag |-> "none"]

\* the call f(a) starts: remember the call before it if it was the same call
Repeats(f, a) ==
  prev' = IF func = f /\ args = a
          THEN [tag |-> "same", ret |-> ret, nmut |-> NMut(cmds)]
          ELSE NoPrev

\* the call frame of a function that keeps no locals of interest
NoLocals ==
  /\ prev' = NoPrev
  /\ UNCHANGED <<stdout, parsed>>
  /\ pre_info' = EmptyDict /\ post_info' = EmptyDict
  /\ ugrps' = {} /\ remq' = << >> /\ addq' = << >> /\ agrps' = {}

\* ------------------------------------------------------ the machine's commands
\* net localgroup <group> <name> /add, /delete: effect on the membership
\* when the command exits with rc
GroupsAfter(kind, cur, group, rc) ==
  IF rc # 0 THEN cur
  ELSE IF kind = "localgroup /add" THEN cur \cup {group}
  ELSE cur \ {group}

\* a net localgroup command succeeds only on an account and a local group
\* that the machine has
CanExit(name, group, rc) ==
  rc = 0 => (accounts[name].exists /\ group \in Groups)

\* net user <name> /homedir: ..., /profilepath: ..., /fullname: ...; a failed
\* command changes nothing, a successful one stores what the machine makes of
\* the value
FieldOutcomes(cur, rc) == IF rc # 0 THEN {cur} ELSE Values

\* ------------------------------------------------------ add, delete, setpassword
add(name) ==
  /\ pc = "idle"
  /\ \E rc \in RetCodes :
       /\ rc = 0 => ~accounts[name].exists
       /\ accounts' = IF rc = 0 THEN [accounts EXCEPT ![name] = NewAccount]
                      ELSE accounts
       /\ cmds' = <<MutCmd("/add", name, "", rc)>>
       /\ ret' = Bool(PyNot(rc))
  /\ func' = "add" /\ args' = [name |-> name]
  /\ pc' = "idle" /\ NoLocals
  /\ UNCHANGED context

delete(name, purge, force) ==
  /\ pc = "idle"
  /\ \E rc \in RetCodes :
       /\ rc = 0 => accounts[name].exists
       /\ accounts' = IF rc = 0 THEN [accounts EXCEPT ![name] = NoAccount]
                      ELSE accounts
       /\ cmds' = <<MutCmd("/delete", name, "", rc)>>
       /\ ret' = Bool(PyNot(rc))
  /\ func' = "delete" /\ args' = [name |-> name, purge |-> purge, force |-> force]
  /\ pc' = "idle" /\ NoLocals
  /\ UNCHANGED context

setpassword(name, password) ==
  /\ pc = "idle"
  /\ \E rc \in RetCodes :
       /\ rc = 0 => accounts[name].exists
       /\ cmds' = <<MutCmd("password", name, password, rc)>>
       /\ ret' = Bool(PyNot(rc))
  /\ func' = "setpassword" /\ args' = [name |-> name, password |-> password]
  /\ pc' = "idle" /\ NoLocals
  /\ UNCHANGED <<accounts, context>>

\* addgroup without the test of lines 84-85
addgroup_nocheck(name, group) ==
  /\ pc = "idle"
  /\ \E out \in NetUser(accounts, name) :
       LET user == info(out) IN
       IF Truthy(user) /\ group \in Range(user.groups)
       THEN /\ ret' = Bool(TRUE)
            /\ cmds' = <<ReadCmd(name)>>
            /\ UNCHANGED accounts
       ELSE \E rc \in RetCodes :
            /\ CanExit(name, group, rc)
            /\ cmds' = <<ReadCmd(name), MutCmd("localgroup /add", name, group, rc)>>
            /\ accounts' = [accounts EXCEPT ![name].groups =
                              GroupsAfter("localgroup /add", @, group, rc)]
            /\ ret' = Bool(PyNot(rc))
  /\ func' = "addgroup" /\ args' = [name |-> name, group |-> group]
  /\ pc' = "idle" /\ NoLocals
  /\ UNCHANGED context

\* ------------------------------------------------------ addgroup, removegroup
addgroup(name, group) ==
  /\ pc = "idle"
  /\ \E out \in NetUser(accounts, name) :
       LET user == info(out) IN
       IF ~Truthy(user)
       THEN /\ ret' = Bool(FALSE)
            /\ cmds' = <<ReadCmd(name)>>
            /\ UNCHANGED accounts
       ELSE IF group \in Range(user.groups)
       THEN /\ ret' = Bool(TRUE)
            /\ cmds' = <<ReadCmd(name)>>
            /\ UNCHANGED accounts
       ELSE \E rc \in RetCodes :
            /\ CanExit(name, group, rc)
            /\ cmds' = <<ReadCmd(name), MutCmd("localgroup /add", name, group, rc)>>
            /\ accounts' = [accounts EXCEPT ![name].groups =
                              GroupsAfter("localgroup /add", @, group, rc)]
            /\ ret' = Bool(PyNot(rc))
  /\ func' = "addgroup" /\ args' = [name |-> name, group |-> group]
  /\ pc' = "idle" /\ NoLocals
  /\ UNCHANGED context

\* removegroup returning True whatever the exit status
removegroup_true(name, group) ==
  /\ pc = "idle"
  /\ \E out \in NetUser(accounts, name) :
       LET user == info(out) IN
       IF ~Truthy(user)
       THEN /\ ret' = Bool(FALSE)
            /\ cmds' = <<ReadCmd(name)>>
            /\ UNCHANGED accounts
       ELSE IF group \notin Range(user.groups)
       THEN /\ ret' = Bool(TRUE)
            /\ cmds' = <<ReadCmd(name)>>
            /\ UNCHANGED accounts
       ELSE \E rc \in RetCodes :
            /\ CanExit(name, group, rc)
            /\ cmds' = <<ReadCmd(name), MutCmd("localgroup /delete", name, group, rc)>>
            /\ accounts' = [accounts EXCEPT ![name].groups =
                              GroupsAfter("localgroup /delete", @, group, rc)]
            /\ ret' = Bool(TRUE)
  /\ func' = "removegroup" /\ args' = [name |-> name, group |-> group]
  /\ pc' = "idle" /\ NoLocals
  /\ UNCHANGED context

removegroup(name, group) ==
  /\ pc = "idle"
  /\ \E out \in NetUser(accounts, name) :
       LET user == info(out) IN
       IF ~Truthy(user)
       THEN /\ ret' = Bool(FALSE)
            /\ cmds' = <<ReadCmd(name)>>
            /\ UNCHANGED accounts
       ELSE IF group \notin Range(user.groups)
       THEN /\ ret' = Bool(TRUE)
            /\ cmds' = <<ReadCmd(name)>>
            /\ UNCHANGED accounts
       ELSE \E rc \in RetCodes :
            /\ CanExit(name, group, rc)
            /\ cmds' = <<ReadCmd(name), MutCmd("localgroup /delete", name, group, rc)>>
            /\ accounts' = [accounts EXCEPT ![name].groups =
                              GroupsAfter("localgroup /delete", @, group, rc)]
            /\ ret' = Bool(PyNot(rc))
  /\ func' = "removegroup" /\ args' = [name |-> name, group |-> group]
  /\ pc' = "idle" /\ NoLocals
  /\ UNCHANGED context

\* chhome without the test of lines 124-125
chhome_noshort(name, home) ==
  /\ pc = "idle"
  /\ \E out \in NetUser(accounts, name) :
       LET pre == info(out) IN
       IF ~Truthy(pre)
       THEN /\ ret' = Bool(FALSE)
            /\ cmds' = <<ReadCmd(name)>>
            /\ pre_info' = pre /\ post_info' = EmptyDict
            /\ UNCHANGED accounts
       ELSE \E rc \in RetCodes :
            \E new \in FieldOutcomes(accounts[name].home, rc) :
            /\ accounts' = [accounts EXCEPT ![name].home = new]
            /\ cmds' = <<ReadCmd(name), MutCmd("/homedir", name, home, rc),
                         ReadCmd(name)>>
            /\ pre_info' = pre
            /\ \E out2 \in NetUser(accounts', name) : post_info' = info(out2)
            /\ ret' = IF post_info'.home # pre.home
                      THEN Bool(post_info'.home = home)
                      ELSE Bool(FALSE)
  /\ func' = "chhome" /\ args' = [name |-> name, home |-> home]
  /\ UNCHANGED <<stdout, parsed>>
  /\ Repeats("chhome", [name |-> name, home |-> home])
  /\ pc' = "idle"
  /\ ugrps' = {} /\ remq' = << >> /\ addq' = << >> /\ agrps' = {}
  /\ UNCHANGED context

\* ------------------------------------------------------ chhome, chprofile, chfullname
chhome(name, home) ==
  /\ pc = "idle"
  /\ \E out \in NetUser(accounts, name) :
       LET pre == info(out) IN
       IF ~Truthy(pre)
       THEN /\ ret' = Bool(FALSE)
            /\ cmds' = <<ReadCmd(name)>>
            /\ pre_info' = pre /\ post_info' = EmptyDict
            /\ UNCHANGED accounts
       ELSE IF home = pre.home
       THEN /\ ret' = Bool(TRUE)
            /\ cmds' = <<ReadCmd(name)>>
            /\ pre_info' = pre /\ post_info' = EmptyDict
            /\ UNCHANGED accounts
       ELSE \E rc \in RetCodes :
            \E new \in FieldOutcomes(accounts[name].home, rc) :
            /\ accounts' = [accounts EXCEPT ![name].home = new]
            /\ cmds' = <<ReadCmd(name), MutCmd("/homedir", name, home, rc),
                         ReadCmd(name)>>
            /\ pre_info' = pre
            /\ \E out2 \in NetUser(accounts', name) : post_info' = info(out2)
            /\ ret' = IF post_info'.home # pre.home
                      THEN Bool(post_info'.home = home)
                      ELSE Bool(FALSE)
  /\ func' = "chhome" /\ args' = [name |-> name, home |-> home]
  /\ UNCHANGED <<stdout, parsed>>
  /\ Repeats("chhome", [name |-> name, home |-> home])
  /\ pc' = "idle"
  /\ ugrps' = {} /\ remq' = << >> /\ addq' = << >> /\ agrps' = {}
  /\ UNCHANGED context

\* chprofile returning whether the field changed
chprofile_changed(name, profile) ==
  /\ pc = "idle"
  /\ \E out \in NetUser(accounts, name) :
       LET pre == info(out) IN
       IF ~Truthy(pre)
       THEN /\ ret' = Bool(FALSE)
            /\ cmds' = <<ReadCmd(name)>>
            /\ pre_info' = pre /\ post_info' = EmptyDict
            /\ UNCHANGED accounts
       ELSE IF profile = pre.profile
       THEN /\ ret' = Bool(TRUE)
            /\ cmds' = <<ReadCmd(name)>>
            /\ pre_info' = pre /\ post_info' = EmptyDict
            /\ UNCHANGED accounts
       ELSE \E rc \in RetCodes :
            \E new \in FieldOutcomes(accounts[name].profile, rc) :
            /\ accounts' = [accounts EXCEPT ![name].profile = new]
            /\ cmds' = <<ReadCmd(name), MutCmd("/profilepath", name, profile, rc),
                         ReadCmd(name)>>
            /\ pre_info' = pre
            /\ \E out2 \in NetUser(accounts', name) : post_info' = info(out2)
            /\ ret' = Bool(post_info'.profile # pre.profile)
  /\ func' = "chprofile" /\ args' = [name |-> name, profile |-> profile]
  /\ UNCHANGED <<stdout, parsed>>
  /\ Repeats("chprofile", [name |-> name, profile |-> profile])
  /\ pc' = "idle"
  /\ ugrps' = {} /\ remq' = << >> /\ addq' = << >> /\ agrps' = {}
  /\ UNCHANGED context

chprofile(name, profile) ==
  /\ pc = "idle"
  /\ \E out \in NetUser(accounts, name) :
       LET pre == info(out) IN
       IF ~Truthy(pre)
       THEN /\ ret' = Bool(FALSE)
            /\ cmds' = <<ReadCmd(name)>>
            /\ pre_info' = pre /\ post_info' = EmptyDict
            /\ UNCHANGED accounts
       ELSE IF profile = pre.profile
       THEN /\ ret' = Bool(TRUE)
            /\ cmds' = <<ReadCmd(name)>>
            /\ pre_info' = pre /\ post_info' = EmptyDict
            /\ UNCHANGED accounts
       ELSE \E rc \in RetCodes :
            \E new \in FieldOutcomes(accounts[name].profile, rc) :
            /\ accounts' = [accounts EXCEPT ![name].profile = new]
            /\ cmds' = <<ReadCmd(name), MutCmd("/profilepath", name, profile, rc),
                         ReadCmd(name)>>
            /\ pre_info' = pre
            /\ \E out2 \in NetUser(accounts', name) : post_info' = info(out2)
            /\ ret' = IF post_info'.profile # pre.profile
                      THEN Bool(post_info'.profile = profile)
                      ELSE Bool(FALSE)
  /\ func' = "chprofile" /\ args' = [name |-> name, profile |-> profile]
  /\ UNCHANGED <<stdout, parsed>>
  /\ Repeats("chprofile", [name |-> name, profile |-> profile])
  /\ pc' = "idle"
  /\ ugrps' = {} /\ remq' = << >> /\ addq' = << >> /\ agrps' = {}
  /\ UNCHANGED context

chfullname(name, fullname) ==
  /\ pc = "idle"
  /\ \E out \in NetUser(accounts, name) :
       LET pre == info(out) IN
       IF ~Truthy(pre)
       THEN /\ ret' = Bool(FALSE)
            /\ cmds' = <<ReadCmd(name)>>
            /\ pre_info' = pre /\ post_info' = EmptyDict
            /\ UNCHANGED accounts
       ELSE IF fullname = pre.fullname
       THEN /\ ret' = Bool(TRUE)
            /\ cmds' = <<ReadCmd(name)>>
            /\ pre_info' = pre /\ post_info' = EmptyDict
            /\ UNCHANGED accounts
       ELSE \E rc \in RetCodes :
            \E new \in FieldOutcomes(accounts[name].fullname, rc) :
            /\ accounts' = [accounts EXCEPT ![name].fullname = new]
            /\ cmds' = <<ReadCmd(name), MutCmd("/fullname", name, fullname, rc),
                         ReadCmd(name)>>
            /\ pre_info' = pre
            /\ \E out2 \in NetUser(accounts', name) : post_info' = info(out2)
            /\ ret' = IF post_info'.fullname # pre.fullname
                      THEN Bool(post_info'.fullname = fullname)
                      ELSE Bool(FALSE)
  /\ func' = "chfullname" /\ args' = [name |-> name, fullname |-> fullname]
  /\ UNCHANGED <<stdout, parsed>>
  /\ Repeats("chfullname", [name |-> name, fullname |-> fullname])
  /\ pc' = "idle"
  /\ ugrps' = {} /\ remq' = << >> /\ addq' = << >> /\ agrps' = {}
  /\ UNCHANGED context

\* ------------------------------------------------------ chgroups
\* a str is a sequence of pieces, each a group name or the separator ","
\* str.split(',')
RECURSIVE split(_)
split(s) ==
  IF s = << >> THEN <<"">>
  ELSE LET r == split(SubSeq(s, 1, Len(s) - 1))
           c == s[Len(s)]
       IN IF c = "," THEN Append(r, "")
          ELSE [r EXCEPT ![Len(r)] = @ \o c]

\* ','.join(names)
RECURSIVE commajoin(_)
commajoin(names) ==
  IF names = << >> THEN << >>
  ELSE IF Len(names) = 1 THEN names
  ELSE <<names[1], ",">> \o commajoin(Tail(names))

\* the `groups` argument: a list of names, or a str: names joined by commas,
\* with or without a comma at the end
GroupsArgs ==
  {[str |-> FALSE, val |-> s] : s \in SeqsUpTo(Groups, MaxDesired)}
    \cup {[str |-> TRUE, val |-> commajoin(s)] : s \in SeqsUpTo(Groups, MaxDesired)}
    \cup {[str |-> TRUE, val |-> commajoin(s) \o <<",">>] : s \in SeqsUpTo(Groups, 1)}

\* lines 184-185
AsList(groups) == IF groups.str THEN split(groups.val) ELSE groups.val

\* chgroups tearing the memberships down whatever append is
chgroups_always_remove(name, groups, append) ==
  /\ pc = "idle"
  /\ func' = "chgroups"
  /\ args' = [name |-> name, groups |-> groups, append |-> append]
  /\ pre_info' = EmptyDict /\ post_info' = EmptyDict /\ agrps' = {}
  /\ prev' = NoPrev
  /\ UNCHANGED <<accounts, context, stdout, parsed>>
  /\ \E out \in NetUser(accounts, name) :
       LET lst == list_groups(out) IN
       IF lst.tag # "list"
       THEN \* set(False)
            /\ ret' = Raise("TypeError")
            /\ cmds' = <<ReadCmd(name)>>
            /\ ugrps' = {} /\ remq' = << >> /\ addq' = << >>
            /\ pc' = "idle"
       ELSE IF Range(lst.val) = Range(AsList(groups))
       THEN /\ ret' = Bool(TRUE)
            /\ cmds' = <<ReadCmd(name)>>
            /\ ugrps' = Range(lst.val) /\ remq' = << >> /\ addq' = << >>
            /\ pc' = "idle"
       ELSE /\ ret' = None
            /\ ugrps' = Range(lst.val)
            /\ addq' = AsList(groups)
            /\ IF TRUE
               THEN \E out2 \in NetUser(accounts, name) :
                      LET lst2 == list_groups(out2) IN
                      /\ cmds' = <<ReadCmd(name), ReadCmd(name)>>
                      /\ remq' = lst2.val
                      /\ pc' = IF lst2.val # << >> THEN "chgroups_remove"
                               ELSE "chgroups_add"
               ELSE /\ cmds' = <<ReadCmd(name)>>
                    /\ remq' = << >>
                    /\ pc' = "chgroups_add"

\* chgroups comparing the lists instead of the sets at line 187
chgroups_listeq(name, groups, append) ==
  /\ pc = "idle"
  /\ func' = "chgroups"
  /\ args' = [name |-> name, groups |-> groups, append |-> append]
  /\ pre_info' = EmptyDict /\ post_info' = EmptyDict /\ agrps' = {}
  /\ prev' = NoPrev
  /\ UNCHANGED <<accounts, context, stdout, parsed>>
  /\ \E out \in NetUser(accounts, name) :
       LET lst == list_groups(out) IN
       IF lst.tag # "list"
       THEN \* set(False)
            /\ ret' = Raise("TypeError")
            /\ cmds' = <<ReadCmd(name)>>
            /\ ugrps' = {} /\ remq' = << >> /\ addq' = << >>
            /\ pc' = "idle"
       ELSE IF lst.val = AsList(groups)
       THEN /\ ret' = Bool(TRUE)
            /\ cmds' = <<ReadCmd(name)>>
            /\ ugrps' = Range(lst.val) /\ remq' = << >> /\ addq' = << >>
            /\ pc' = "idle"
       ELSE /\ ret' = None
            /\ ugrps' = Range(lst.val)
            /\ addq' = AsList(groups)
            /\ IF ~append
               THEN \E out2 \in NetUser(accounts, name) :
                      LET lst2 == list_groups(out2) IN
                      /\ cmds' = <<ReadCmd(name), ReadCmd(name)>>
                      /\ remq' = lst2.val
                      /\ pc' = IF lst2.val # << >> THEN "chgroups_remove"
                               ELSE "chgroups_add"
               ELSE /\ cmds' = <<ReadCmd(name)>>
                    /\ remq' = << >>
                    /\ pc' = "chgroups_add"

\* chgroups looping over the desired groups at line 190
chgroups_remove_desired(name, groups, append) ==
  /\ pc = "idle"
  /\ func' = "chgroups"
  /\ args' = [name |-> name, groups |-> groups, append |-> append]
  /\ pre_info' = EmptyDict /\ post_info' = EmptyDict /\ agrps' = {}
  /\ prev' = NoPrev
  /\ UNCHANGED <<accounts, context, stdout, parsed>>
  /\ \E out \in NetUser(accounts, name) :
       LET lst == list_groups(out) IN
       IF lst.tag # "list"
       THEN \* set(False)
            /\ ret' = Raise("TypeError")
            /\ cmds' = <<ReadCmd(name)>>
            /\ ugrps' = {} /\ remq' = << >> /\ addq' = << >>
            /\ pc' = "idle"
       ELSE IF Range(lst.val) = Range(AsList(groups))
       THEN /\ ret' = Bool(TRUE)
            /\ cmds' = <<ReadCmd(name)>>
            /\ ugrps' = Range(lst.val) /\ remq' = << >> /\ addq' = << >>
            /\ pc' = "idle"
       ELSE /\ ret' = None
            /\ ugrps' = Range(lst.val)
            /\ addq' = AsList(groups)
            /\ IF ~append
               THEN \E out2 \in NetUser(accounts, name) :
                      LET lst2 == list_groups(out2) IN
                      /\ cmds' = <<ReadCmd(name), ReadCmd(name)>>
                      /\ remq' = AsList(groups)
                      /\ pc' = IF AsList(groups) # << >> THEN "chgroups_remove"
                               ELSE "chgroups_add"
               ELSE /\ cmds' = <<ReadCmd(name)>>
                    /\ remq' = << >>
                    /\ pc' = "chgroups_add"

\* chgroups removing only the groups that are not desired
chgroups_skip_kept(name, groups, append) ==
  /\ pc = "idle"
  /\ func' = "chgroups"
  /\ args' = [name |-> name, groups |-> groups, append |-> append]
  /\ pre_info' = EmptyDict /\ post_info' = EmptyDict /\ agrps' = {}
  /\ prev' = NoPrev
  /\ UNCHANGED <<accounts, context, stdout, parsed>>
  /\ \E out \in NetUser(accounts, name) :
       LET lst == list_groups(out) IN
       IF lst.tag # "list"
       THEN \* set(False)
            /\ ret' = Raise("TypeError")
            /\ cmds' = <<ReadCmd(name)>>
            /\ ugrps' = {} /\ remq' = << >> /\ addq' = << >>
            /\ pc' = "idle"
       ELSE IF Range(lst.val) = Range(AsList(groups))
       THEN /\ ret' = Bool(TRUE)
            /\ cmds' = <<ReadCmd(name)>>
            /\ ugrps' = Range(lst.val) /\ remq' = << >> /\ addq' = << >>
            /\ pc' = "idle"
       ELSE /\ ret' = None
            /\ ugrps' = Range(lst.val)
            /\ addq' = AsList(groups)
            /\ IF ~append
               THEN \E out2 \in NetUser(accounts, name) :
                      LET lst2 == list_groups(out2) IN
                      /\ cmds' = <<ReadCmd(name), ReadCmd(name)>>
                      /\ remq' = SelectSeq(lst2.val,
                                    LAMBDA g : g \notin Range(AsList(groups)))
                      /\ pc' = IF remq' # << >> THEN "chgroups_remove"
                               ELSE "chgroups_add"
               ELSE /\ cmds' = <<ReadCmd(name)>>
                    /\ remq' = << >>
                    /\ pc' = "chgroups_add"

chgroups(name, groups, append) ==
  /\ pc = "idle"
  /\ func' = "chgroups"
  /\ args' = [name |-> name, groups |-> groups, append |-> append]
  /\ pre_info' = EmptyDict /\ post_info' = EmptyDict /\ agrps' = {}
  /\ prev' = NoPrev
  /\ UNCHANGED <<accounts, context, stdout, parsed>>
  /\ \E out \in NetUser(accounts, name) :
       LET lst == list_groups(out) IN
       IF lst.tag # "list"
       THEN \* set(False)
            /\ ret' = Raise("TypeError")
            /\ cmds' = <<ReadCmd(name)>>
            /\ ugrps' = {} /\ remq' = << >> /\ addq' = << >>
            /\ pc' = "idle"
       ELSE IF Range(lst.val) = Range(AsList(groups))
       THEN /\ ret' = Bool(TRUE)
            /\ cmds' = <<ReadCmd(name)>>
            /\ ugrps' = Range(lst.val) /\ remq' = << >> /\ addq' = << >>
            /\ pc' = "idle"
       ELSE /\ ret' = None
            /\ ugrps' = Range(lst.val)
            /\ addq' = AsList(groups)
            /\ IF ~append
               THEN \E out2 \in NetUser(accounts, name) :
                      LET lst2 == list_groups(out2) IN
                      /\ cmds' = <<ReadCmd(name), ReadCmd(name)>>
                      /\ remq' = lst2.val
                      /\ pc' = IF lst2.val # << >> THEN "chgroups_remove"
                               ELSE "chgroups_add"
               ELSE /\ cmds' = <<ReadCmd(name)>>
                    /\ remq' = << >>
                    /\ pc' = "chgroups_add"

\* one iteration of the loop of lines 190-192
chgroups_remove ==
  /\ pc = "chgroups_remove"
  /\ remq # << >>
  /\ LET group == Head(remq)
         name == args.name
     IN \E rc \in RetCodes :
          /\ CanExit(name, group, rc)
          /\ cmds' = Append(cmds, MutCmd("localgroup /delete", name, group, rc))
          /\ accounts' = [accounts EXCEPT ![name].groups =
                            GroupsAfter("localgroup /delete", @, group, rc)]
  /\ remq' = Tail(remq)
  /\ pc' = IF Tail(remq) # << >> THEN "chgroups_remove" ELSE "chgroups_add"
  /\ UNCHANGED <<context, func, args, ret, pre_info, post_info, ugrps, addq, agrps, prev, stdout, parsed>>

\* chgroups_add leaving the loop after its first iteration
chgroups_add_once ==
  /\ pc = "chgroups_add"
  /\ addq # << >>
  /\ LET group == Head(addq)
         name == args.name
     IN \E rc \in RetCodes :
          /\ CanExit(name, group, rc)
          /\ cmds' = Append(cmds, MutCmd("localgroup /add", name, group, rc))
          /\ accounts' = [accounts EXCEPT ![name].groups =
                            GroupsAfter("localgroup /add", @, group, rc)]
  /\ addq' = << >>
  /\ UNCHANGED <<context, pc, func, args, ret, pre_info, post_info, ugrps, remq, agrps, prev, stdout, parsed>>

\* one iteration of the loop of lines 193-195
chgroups_add ==
  /\ pc = "chgroups_add"
  /\ addq # << >>
  /\ LET group == Head(addq)
         name == args.name
     IN \E rc \in RetCodes :
          /\ CanExit(name, group, rc)
          /\ cmds' = Append(cmds, MutCmd("localgroup /add", name, group, rc))
          /\ accounts' = [accounts EXCEPT ![name].groups =
                            GroupsAfter("localgroup /add", @, group, rc)]
  /\ addq' = Tail(addq)
  /\ UNCHANGED <<context, pc, func, args, ret, pre_info, post_info, ugrps, remq, agrps, prev, stdout, parsed>>

\* chgroups returning whether the desired groups were read back
chgroups_return_desired ==
  /\ pc = "chgroups_add"
  /\ addq = << >>
  /\ \E out \in NetUser(accounts, args.name) :
       LET lst == list_groups(out) IN
       /\ cmds' = Append(cmds, ReadCmd(args.name))
       /\ IF lst.tag # "list"
          THEN agrps' = {} /\ ret' = Raise("TypeError")
          ELSE /\ agrps' = Range(lst.val)
               /\ ret' = Bool(Cardinality(Range(AsList(args.groups)) \ agrps') = 0)
  /\ pc' = "idle"
  /\ UNCHANGED <<accounts, context, func, args, pre_info, post_info, ugrps, remq, addq, prev, stdout, parsed>>

\* lines 196-197
chgroups_return ==
  /\ pc = "chgroups_add"
  /\ addq = << >>
  /\ \E out \in NetUser(accounts, args.name) :
       LET lst == list_groups(out) IN
       /\ cmds' = Append(cmds, ReadCmd(args.name))
       /\ IF lst.tag # "list"
          THEN agrps' = {} /\ ret' = Raise("TypeError")
          ELSE /\ agrps' = Range(lst.val)
               /\ ret' = Bool(Cardinality(ugrps \ agrps') = 0)
  /\ pc' = "idle"
  /\ UNCHANGED <<accounts, context, func, args, pre_info, post_info, ugrps, remq, addq, prev, stdout, parsed>>

\* ------------------------------------------------------ info, list_groups as calls
info_call(name) ==
  /\ pc = "idle"
  /\ \E out \in NetUser(accounts, name) : ret' = Dict(info(out))
  /\ cmds' = <<ReadCmd(name)>>
  /\ func' = "info" /\ args' = [name |-> name]
  /\ pc' = "idle" /\ NoLocals
  /\ UNCHANGED <<accounts, context>>

list_groups_call(name) ==
  /\ pc = "idle"
  /\ \E out \in NetUser(accounts, name) : ret' = list_groups(out)
  /\ cmds' = <<ReadCmd(name)>>
  /\ func' = "list_groups" /\ args' = [name |-> name]
  /\ pc' = "idle" /\ NoLocals
  /\ UNCHANGED <<accounts, context>>

\* ------------------------------------------------------ getent
\* file.user_to_uid
user_to_uid(name) == "S-" \o name

\* the account names `net user` lists, in the tool's order
NetUserAll(db) == Perms({n \in Names : db[n].exists})

EnumCmd == [kind |-> "net user", name |-> "", arg |-> "", rc |-> 0]

\* lines 288-298
stuff(user_info) ==
  [gid |-> "", groups |-> user_info.groups, home |-> user_info.home,
   name |-> user_info.name, passwd |-> "", shell |-> "",
   uid |-> user_to_uid(user_info.name)]

\* getent without the test of lines 267-268
getent_nocache ==
  /\ pc = "idle"
  /\ func' = "getent" /\ args' = NoArgs
  /\ pc' = "idle" /\ NoLocals
  /\ UNCHANGED accounts
  /\ IF FALSE
     THEN /\ ret' = List(context["user.getent"])
          /\ cmds' = << >>
          /\ UNCHANGED context
     ELSE \E users \in NetUserAll(accounts) :
          \E outs \in [Names -> UNION {NetUser(accounts, n) : n \in Names}] :
            /\ \A n \in Names : outs[n] \in NetUser(accounts, n)
            /\ cmds' = <<EnumCmd>> \o [i \in 1..Len(users) |-> ReadCmd(users[i])]
            /\ IF \E i \in 1..Len(users) : ~Truthy(info(outs[users[i]]))
               THEN ret' = Raise("KeyError") /\ UNCHANGED context
               ELSE LET r == [i \in 1..Len(users) |-> stuff(info(outs[users[i]]))]
                    IN /\ context' = ("user.getent" :> r)
                       /\ ret' = List(r)

getent ==
  /\ pc = "idle"
  /\ func' = "getent" /\ args' = NoArgs
  /\ pc' = "idle" /\ NoLocals
  /\ UNCHANGED accounts
  /\ IF "user.getent" \in DOMAIN context
     THEN /\ ret' = List(context["user.getent"])
          /\ cmds' = << >>
          /\ UNCHANGED context
     ELSE \E users \in NetUserAll(accounts) :
          \E outs \in [Names -> UNION {NetUser(accounts, n) : n \in Names}] :
            /\ \A n \in Names : outs[n] \in NetUser(accounts, n)
            /\ cmds' = <<EnumCmd>> \o [i \in 1..Len(users) |-> ReadCmd(users[i])]
            /\ IF \E i \in 1..Len(users) : ~Truthy(info(outs[users[i]]))
               THEN ret' = Raise("KeyError") /\ UNCHANGED context
               ELSE LET r == [i \in 1..Len(users) |-> stuff(info(outs[users[i]]))]
                    IN /\ context' = ("user.getent" :> r)
                       /\ ret' = List(r)

\* ------------------------------------------------------ the run
AccountStates ==
  {NoAccount} \cup
  [exists : {TRUE}, fullname : Values, profile : Values, home : Values,
   groups : SUBSET Groups]

Init ==
  /\ accounts \in [Names -> AccountStates]
  /\ context = EmptyDict
  /\ pc = "idle"
  /\ func = "" /\ args = NoArgs /\ ret = None /\ cmds = << >>
  /\ pre_info = EmptyDict /\ post_info = EmptyDict
  /\ ugrps = {} /\ remq = << >> /\ addq = << >> /\ agrps = {}
  /\ prev = NoPrev
  /\ stdout = << >> /\ parsed = None

Next ==
  \/ \E name \in Names : add(name)
  \/ \E name \in Names, purge \in BOOLEAN, force \in BOOLEAN : delete(name, purge, force)
  \/ \E name \in Names : setpassword(name, "pw")
  \/ \E name \in Names, group \in Groups : addgroup(name, group)
  \/ \E name \in Names, group \in Groups : removegroup(name, group)
  \/ \E name \in Names, home \in ReqValues : chhome(name, home)
  \/ \E name \in Names, profile \in ReqValues : chprofile(name, profile)
  \/ \E name \in Names, fullname \in ReqValues : chfullname(name, fullname)
  \/ \E name \in Names, groups \in GroupsArgs, append \in BOOLEAN :
       chgroups(name, groups, append)
  \/ chgroups_remove
  \/ chgroups_add
  \/ chgroups_return
  \/ \E name \in Names : info_call(name)
  \/ \E name \in Names : list_groups_call(name)

\* the functions of the module called in any order
Spec == Init /\ [][Next]_vars

\* a run that also enumerates the accounts: getent with every other function
\* (chgroups with the shorter arguments of RunGroupsArgs)
RunGroupsArgs ==
  {[str |-> FALSE, val |-> s] : s \in SeqsUpTo(Groups, 1)}
    \cup {[str |-> TRUE, val |-> <<g>>] : g \in Groups}

NextRun ==
  \/ \E name \in Names : add(name)
  \/ \E name \in Names, purge \in BOOLEAN, force \in BOOLEAN : delete(name, purge, force)
  \/ \E name \in Names : setpassword(name, "pw")
  \/ \E name \in Names, group \in Groups : addgroup(name, group)
  \/ \E name \in Names, group \in Groups : removegroup(name, group)
  \/ \E name \in Names, home \in ReqValues : chhome(name, home)
  \/ \E name \in Names, profile \in ReqValues : chprofile(name, profile)
  \/ \E name \in Names, fullname \in ReqValues : chfullname(name, fullname)
  \/ \E name \in Names, groups \in RunGroupsArgs, append \in BOOLEAN :
       chgroups(name, groups, append)
  \/ chgroups_remove
  \/ chgroups_add
  \/ chgroups_return
  \/ \E name \in Names : info_call(name)
  \/ \E name \in Names : list_groups_call(name)
  \/ getent

SpecRun == Init /\ [][NextRun]_vars

\* ====================================================== parsing of the text
\* A str is a sequence of pieces: a piece is one character that the parsing
\* looks for (" ", "*") or a stretch of text without such characters.

Join(s) == IF s = << >> THEN "" ELSE
  LET RECURSIVE J(_)
      J(k) == IF k = 0 THEN "" ELSE J(k - 1) \o s[k]
  IN J(Len(s))

\* positions where sep (n spaces) starts in s
SepAt(s, n) == {i \in 1..(Len(s) - n + 1) : \A j \in 0..(n - 1) : s[i + j] = " "}
Min(S) == CHOOSE x \in S : \A y \in S : x <= y

\* str.split('    ', 1)
split4(s) ==
  IF SepAt(s, 4) = {} THEN <<s>>
  ELSE LET i == Min(SepAt(s, 4))
       IN <<SubSeq(s, 1, i - 1), SubSeq(s, i + 4, Len(s))>>

\* str.split('  ')
RECURSIVE split2(_)
split2(s) ==
  IF SepAt(s, 2) = {} THEN <<s>>
  ELSE LET i == Min(SepAt(s, 2))
       IN <<SubSeq(s, 1, i - 1)>> \o split2(SubSeq(s, i + 2, Len(s)))

\* str.strip(c): drop the leading and the trailing run of c
RECURSIVE lstrip(_, _)
lstrip(s, c) == IF s # << >> /\ s[1] = c THEN lstrip(Tail(s), c) ELSE s
RECURSIVE rstrip(_, _)
rstrip(s, c) ==
  IF s # << >> /\ s[Len(s)] = c THEN rstrip(SubSeq(s, 1, Len(s) - 1), c) ELSE s
strip(s, c) == rstrip(lstrip(s, c), c)

NotFoundMarker == "name could not be found"
SuccessMarker == "successfully"
\* marker in line
In(marker, line) == marker \in Range(line)

\* lines 220-225, each name still in its pieces
grouptokens(value) ==
  LET groups == split2(value)
      kept == SelectSeq(groups, LAMBDA group : group # << >>)
  IN [i \in 1..Len(kept) |-> strip(kept[i], "*")]

\* lines 220-225
grouplist(value) ==
  [i \in 1..Len(grouptokens(value)) |-> Join(grouptokens(value)[i])]

\* lines 212-219: the items of the lines, or the not-found result
RECURSIVE scan(_, _)
scan(lines, items) ==
  IF lines = << >> THEN [found |-> TRUE, items |-> items]
  ELSE LET line == Head(lines) IN
       IF In(NotFoundMarker, line) THEN [found |-> FALSE, items |-> items]
       ELSE IF ~In(SuccessMarker, line)
       THEN LET comps == split4(line) IN
            IF ~(Len(comps) > 1) THEN scan(Tail(lines), items)
            ELSE scan(Tail(lines),
                      (Join(strip(comps[1], " ")) :> strip(comps[2], " ")) @@ items)
       ELSE scan(Tail(lines), items)

Labels == {"Local Group Memberships", "Full Name", "User name", "Comment",
           "Account active", "Logon script", "User profile", "Home directory"}

\* info reading the items before it looks at the not-found result
info_lines_labels_first(lines) ==
  LET r == scan(lines, EmptyDict) IN
  IF ~(Labels \subseteq DOMAIN r.items) THEN Raise("KeyError")
  ELSE IF ~r.found THEN Dict(EmptyDict)
  ELSE Dict([fullname |-> Join(r.items["Full Name"]),
             name |-> Join(r.items["User name"]),
             comment |-> Join(r.items["Comment"]),
             active |-> Join(r.items["Account active"]),
             logonscript |-> Join(r.items["Logon script"]),
             profile |-> Join(r.items["User profile"]),
             home |-> Join(r.items["Home directory"]),
             groups |-> grouplist(r.items["Local Group Memberships"]),
             gid |-> ""])

\* info on the text `net user <name>` printed
info_lines(lines) ==
  LET r == scan(lines, EmptyDict) IN
  IF ~r.found THEN Dict(EmptyDict)
  ELSE IF ~(Labels \subseteq DOMAIN r.items) THEN Raise("KeyError")
  ELSE Dict([fullname |-> Join(r.items["Full Name"]),
             name |-> Join(r.items["User name"]),
             comment |-> Join(r.items["Comment"]),
             active |-> Join(r.items["Account active"]),
             logonscript |-> Join(r.items["Logon script"]),
             profile |-> Join(r.items["User profile"]),
             home |-> Join(r.items["Home directory"]),
             groups |-> grouplist(r.items["Local Group Memberships"]),
             gid |-> ""])

\* info(name) on the text in stdout
parse_info ==
  /\ parsed = None
  /\ stdout # << >>
  /\ args.name # ""
  /\ func' = "info"
  /\ parsed' = info_lines(stdout)
  /\ UNCHANGED <<accounts, context, pc, args, ret, cmds, pre_info,
                 post_info, ugrps, remq, addq, agrps, prev, stdout>>

\* the pieces in the order of their first characters
PieceOrder == <<" ", "*", "Admins", "Users">>
PieceRank(x) == CHOOSE i \in 1..Len(PieceOrder) : PieceOrder[i] = x

\* a < b of two str
StrLess(a, b) ==
  \/ Len(a) < Len(b) /\ SubSeq(b, 1, Len(a)) = a
  \/ \E k \in 1..Len(a) :
       /\ k <= Len(b)
       /\ SubSeq(a, 1, k - 1) = SubSeq(b, 1, k - 1)
       /\ PieceRank(a[k]) < PieceRank(b[k])

\* sorted(...) of a set of str
RECURSIVE sorted_str(_)
sorted_str(S) ==
  IF S = {} THEN << >>
  ELSE LET m == CHOOSE x \in S : \A y \in S \ {x} : StrLess(x, y)
       IN <<m>> \o sorted_str(S \ {m})

\* list_groups returning the groups as info listed them
list_groups_lines_unsorted(lines) ==
  LET r == info_lines(lines) IN
  IF r.tag = "raise" THEN Bool(FALSE)
  ELSE IF "groups" \notin DOMAIN r.val THEN Bool(FALSE)
  ELSE LET user == grouptokens(scan(lines, EmptyDict).items["Local Group Memberships"])
           ugrp == Range(user)
           s == sorted_str(ugrp)
       IN List(r.val.groups)

\* list_groups on the text `net user <name>` printed; the names of
\* info(name)['groups'] are compared in the pieces they were read from
list_groups_lines(lines) ==
  LET r == info_lines(lines) IN
  IF r.tag = "raise" THEN Bool(FALSE)
  ELSE IF "groups" \notin DOMAIN r.val THEN Bool(FALSE)
  ELSE LET user == grouptokens(scan(lines, EmptyDict).items["Local Group Memberships"])
           ugrp == Range(user)
           s == sorted_str(ugrp)
       IN List([i \in 1..Len(s) |-> Join(s[i])])

\* list_groups(name) on the text in stdout
parse_list_groups ==
  /\ parsed = None
  /\ stdout # << >>
  /\ args.name # ""
  /\ func' = "list_groups"
  /\ parsed' = list_groups_lines(stdout)
  /\ UNCHANGED <<accounts, context, pc, args, ret, cmds, pre_info,
                 post_info, ugrps, remq, addq, agrps, prev, stdout>>

\* str.split()
RECURSIVE wsplit(_)
wsplit(s) ==
  IF s = << >> THEN << >>
  ELSE IF s[1] = " " THEN wsplit(Tail(s))
  ELSE LET stops == {i \in 1..Len(s) : s[i] = " "}
           n == IF stops = {} THEN Len(s) ELSE Min(stops) - 1
       IN <<Join(SubSeq(s, 1, n))>> \o wsplit(SubSeq(s, n + 1, Len(s)))

Divider == "----------"

\* lines 270-286 of getent: the account names in the text `net user` printed
RECURSIVE users_of(_, _)
users_of(lines, startusers) ==
  IF lines = << >> THEN << >>
  ELSE LET line == Head(lines) IN
       IF In(Divider, line) THEN users_of(Tail(lines), TRUE)
       ELSE IF startusers /\ ~In(SuccessMarker, line)
       THEN wsplit(line) \o users_of(Tail(lines), startusers)
       ELSE users_of(Tail(lines), startusers)

\* getent on the text in stdout, up to its list of names
parse_getent ==
  /\ parsed = None
  /\ stdout # << >>
  /\ args.name = ""
  /\ func' = "getent"
  /\ parsed' = List(users_of(stdout, FALSE))
  /\ UNCHANGED <<accounts, context, pc, args, ret, cmds, pre_info,
                 post_info, ugrps, remq, addq, agrps, prev, stdout>>

\* ------------------------------------------------------ texts to parse
Sep4 == <<" ", " ", " ", " ">>
LineOf(label, value) == <<label>> \o Sep4 \o value

GroupPieces == {"Users", "Admins"}
ValueTexts == SeqsUpTo({" ", "*"} \cup GroupPieces, MaxValueLen)

\* the detail view of account alice with the memberships text v
DetailView(v) ==
  << LineOf("User name", <<"alice">>),
     LineOf("Full Name", <<"Alice", " ", "A">>),
     LineOf("Comment", << >>),
     LineOf("Account active", <<"Yes">>),
     LineOf("Logon script", << >>),
     LineOf("User profile", << >>),
     LineOf("Home directory", <<"\\\\srv\\home\\alice">>),
     << >>,
     LineOf("Local Group Memberships", v),
     <<"The command completed ", "successfully", ".">> >>

\* a text without its line i; a text with line l put after its line k
DropLine(t, i) == SubSeq(t, 1, i - 1) \o SubSeq(t, i + 1, Len(t))
InsertLine(t, k, l) == SubSeq(t, 1, k) \o <<l>> \o SubSeq(t, k + 1, Len(t))

ShortValueTexts == SeqsUpTo({" ", "*"} \cup GroupPieces, 2)

\* detail views that lack the line of a label, or the separator after it
MissingLabelTexts ==
  {DropLine(DetailView(v), i) : v \in ShortValueTexts, i \in (1..7) \cup {9}}
    \cup {[DetailView(v) EXCEPT ![i] = <<@[1]>>] :
            v \in ShortValueTexts, i \in (1..7) \cup {9}}

NotFoundLine == <<"The user ", NotFoundMarker, ".">>

\* what `net user <name>` prints for a missing account, and texts with the
\* not-found line anywhere among other lines
NotFoundTexts ==
  {<<NotFoundLine, << >>, <<"More help is available.">> >>}
    \cup UNION {{InsertLine(t, k, NotFoundLine) : k \in 0..Len(t)} :
                  t \in {DetailView(v) : v \in ShortValueTexts}
                          \cup {DropLine(DetailView(<<"Users">>), i) : i \in {1, 9}}}

DetailTexts ==
  {DetailView(v) : v \in ValueTexts} \cup MissingLabelTexts \cup NotFoundTexts

\* the enumeration view: header, divider, rows of names, status line
UserPieces == {"alice", "bob", "successfully"}
RowTexts ==
  {<<a>> : a \in UserPieces}
    \cup {<<a, " ", " ", b>> : a \in UserPieces, b \in UserPieces}
StatusLine == <<"The", " ", "command", " ", "completed", " ", SuccessMarker, ".">>
EnumView(rows, tail) ==
  << << >>, <<"User", " ", "accounts", " ", "for", " ", "\\\\HOST">>, << >>,
     <<Divider>> >> \o rows \o tail
EnumTexts ==
  {EnumView(rows, tail) : rows \in SeqsUpTo(RowTexts, 2),
                          tail \in {<< >>, <<StatusLine>>, <<StatusLine, << >> >>}}

InitParse ==
  /\ \/ stdout \in DetailTexts /\ args = [name |-> "alice"]
     \/ stdout \in EnumTexts /\ args = NoArgs
  /\ parsed = None
  /\ accounts = [n \in Names |-> NoAccount]
  /\ context = EmptyDict
  /\ pc = "idle"
  /\ func = "" /\ ret = None /\ cmds = << >>
  /\ pre_info = EmptyDict /\ post_info = EmptyDict
  /\ ugrps = {} /\ remq = << >> /\ addq = << >> /\ agrps = {}
  /\ prev = NoPrev

NextParse ==
  \/ parse_info
  \/ parse_list_groups
  \/ parse_getent

SpecParse == InitParse /\ [][NextParse]_vars

\* what the lines of stdout give: the not-found line, every label, and the
\* memberships text
HasNotFound == \E i \in 1..Len(stdout) : In(NotFoundMarker, stdout[i])
AllLabels == Labels \subseteq DOMAIN scan(stdout, EmptyDict).items
MembershipsText ==
  LET items == scan(stdout, EmptyDict).items
  IN IF "Local Group Memberships" \in DOMAIN items
     THEN items["Local Group Memberships"] ELSE << >>

\* ====================================================== properties

\* C1: when chgroups has issued its commands, it returns success if and only
\* if every desired group is in the group set read back at the end.
C1_ReturnIffDesiredSubset ==
  (func = "chgroups" /\ pc = "idle" /\ Len(cmds) >= 2 /\ ret.tag = "bool")
    => (ret.val <=> Range(AsList(args.groups)) \subseteq agrps)

\* C2: after chgroups without append on an existing account, all of whose
\* commands took effect, the account holds every desired group.
C2_SetConvergence ==
  (/\ func = "chgroups" /\ pc = "idle" /\ ~args.append /\ ret.tag = "bool"
   /\ \A i \in 1..Len(cmds) : cmds[i].rc = 0)
    => Range(AsList(args.groups)) \subseteq accounts[args.name].groups

C2_Witness ==
  /\ func = "chgroups" /\ pc = "idle" /\ ~args.append /\ ret.tag = "bool"
  /\ \A i \in 1..Len(cmds) : cmds[i].rc = 0
  /\ \E i \in 1..Len(cmds) : cmds[i].kind = "localgroup /delete"
  /\ Cardinality({i \in 1..Len(cmds) : cmds[i].kind = "localgroup /add"}) = 2
  /\ Cardinality(accounts[args.name].groups) = 2
  /\ ugrps # accounts[args.name].groups

\* C3: during and after chgroups with append, no remove command has been
\* issued and the account still holds every group it held at the first read.
C3_AppendMonotonic ==
  (func = "chgroups" /\ args.append)
    => /\ \A i \in 1..Len(cmds) : cmds[i].kind # "localgroup /delete"
       /\ ugrps \subseteq accounts[args.name].groups

C3_Witness ==
  /\ func = "chgroups" /\ args.append /\ pc = "idle"
  /\ ugrps # {}
  /\ \E i \in 1..Len(cmds) : cmds[i].kind = "localgroup /add" /\ cmds[i].rc = 0
  /\ ugrps # accounts[args.name].groups
  /\ ~(Range(AsList(args.groups)) \subseteq ugrps)
  /\ ~(ugrps \subseteq Range(AsList(args.groups)))

\* C4: addgroup, removegroup, chhome, chprofile and chfullname called for an
\* account that does not exist return False, issue no mutating command and
\* leave the accounts as they were.
C4_NoMutationOnMissing ==
  [][ (/\ pc = "idle" /\ pc' = "idle"
       /\ func' \in {"addgroup", "removegroup", "chhome", "chprofile", "chfullname"}
       /\ ~accounts[args'.name].exists)
        => (ret' = Bool(FALSE) /\ NMut(cmds') = 0 /\ accounts' = accounts) ]_vars

C4_Witness ==
  /\ pc = "idle" /\ func = "removegroup"
  /\ ~accounts[args.name].exists
  /\ ret = Bool(FALSE) /\ cmds = <<ReadCmd(args.name)>>

\* C5: chgroups called for an account that does not exist returns a failure
\* value, without raising and without issuing an add or remove command.
C5_MissingAccountFails ==
  (func = "chgroups" /\ pc = "idle" /\ ~accounts[args.name].exists)
    => (ret = Bool(FALSE) /\ NMut(cmds) = 0)

\* C6 as stated: the second of two chhome calls in a row with the same path on
\* an existing account issues no mutating command and returns success, and
\* the two calls issue at most one mutating command together.
C6_TwiceAtMostOne ==
  (func = "chhome" /\ pc = "idle" /\ prev.tag = "same" /\ accounts[args.name].exists)
    => (NMut(cmds) = 0 /\ ret = Bool(TRUE) /\ prev.nmut + NMut(cmds) <= 1)

\* C6 amended: when the first of two chhome calls in a row with the same path
\* returned success, the second issues no mutating command and returns
\* success, and the two calls issue at most one mutating command together.
C6_IdempotentAfterSuccess ==
  (func = "chhome" /\ pc = "idle" /\ prev.tag = "same" /\ prev.ret = Bool(TRUE))
    => (NMut(cmds) = 0 /\ ret = Bool(TRUE) /\ prev.nmut + NMut(cmds) <= 1)

C6_Witness ==
  /\ func = "chhome" /\ pc = "idle" /\ prev.tag = "same"
  /\ prev.ret = Bool(TRUE) /\ prev.nmut = 1
  /\ cmds = <<ReadCmd(args.name)>> /\ ret = Bool(TRUE)

\* C7: chhome, chprofile and chfullname on an existing account return success
\* without a mutating command when the field read first already has the
\* requested value; otherwise they issue exactly one change command, read the
\* account again and return success if and only if the field read again has
\* the requested value, whatever the exit status of the command.
C7_FieldChange ==
  (func \in {"chhome", "chprofile", "chfullname"} /\ pc = "idle" /\ Truthy(pre_info))
    => LET f == IF func = "chhome" THEN "home"
                ELSE IF func = "chprofile" THEN "profile" ELSE "fullname"
           kind == IF func = "chhome" THEN "/homedir"
                   ELSE IF func = "chprofile" THEN "/profilepath" ELSE "/fullname"
           v == args[f]
       IN IF pre_info[f] = v
          THEN ret = Bool(TRUE) /\ NMut(cmds) = 0
          ELSE /\ Len(cmds) = 3
               /\ cmds[1] = ReadCmd(args.name) /\ cmds[3] = ReadCmd(args.name)
               /\ cmds[2].kind = kind /\ cmds[2].arg = v
               /\ post_info[f] = accounts[args.name][f]
               /\ ret = Bool(post_info[f] = v)
               /\ (post_info[f] = pre_info[f] => ret = Bool(FALSE))

C7_Witness ==
  /\ func = "chprofile" /\ pc = "idle" /\ Truthy(pre_info)
  /\ Len(cmds) = 3 /\ cmds[2].rc = 0
  /\ post_info.profile # pre_info.profile
  /\ ret = Bool(FALSE)

\* C8: a memberships text made of group names, each optionally preceded by an
\* asterisk, separated by runs of two or more spaces, parses to exactly the
\* bare group names.
C8_GroupsParsed ==
  LET v == MembershipsText
      n == Len(v)
      wellformed ==
        \A i \in 1..n :
          /\ v[i] = "*" => /\ i < n /\ v[i + 1] \in GroupPieces
                           /\ (i = 1 \/ v[i - 1] = " ")
          /\ v[i] \in GroupPieces => /\ (i = 1 \/ v[i - 1] \in {" ", "*"})
                                     /\ (i = n \/ v[i + 1] = " ")
          /\ v[i] = " " => /\ 1 < i /\ i < n
                           /\ (v[i - 1] = " " \/ v[i + 1] = " ")
  IN (parsed # None /\ func = "info" /\ ~HasNotFound /\ AllLabels /\ wellformed)
       => /\ parsed.tag = "dict"
          /\ parsed.val.groups = SelectSeq(v, LAMBDA x : x \in GroupPieces)

\* C9: once getent has filled the cache, no step changes the cached value, and
\* every getent call issues no command and returns the cached value.
C9_CacheWrittenOnce ==
  [][ ("user.getent" \in DOMAIN context)
        => /\ context' = context
           /\ (pc = "idle" /\ func' = "getent")
                => (cmds' = << >> /\ ret' = List(context["user.getent"])) ]_vars

C9_Witness ==
  /\ func = "getent" /\ pc = "idle" /\ cmds = << >>
  /\ "user.getent" \in DOMAIN context
  /\ ret = List(context["user.getent"])
  /\ Len(context["user.getent"]) = 1
  /\ Range(context["user.getent"][1].groups) # accounts["alice"].groups

\* C10: addgroup / removegroup on an existing account return success without
\* a command when the groups just read already satisfy the request; otherwise
\* they issue exactly one add / remove command, return success if and only if
\* its exit status is 0, and read nothing afterwards.
C10_SingleGroupOps ==
  [][ (/\ pc = "idle" /\ pc' = "idle"
       /\ func' \in {"addgroup", "removegroup"}
       /\ accounts[args'.name].exists)
        => LET isadd == func' = "addgroup"
               member == args'.group \in accounts[args'.name].groups
               kind == IF isadd THEN "localgroup /add" ELSE "localgroup /delete"
           IN IF member = isadd
              THEN ret' = Bool(TRUE) /\ cmds' = <<ReadCmd(args'.name)>>
                   /\ accounts' = accounts
              ELSE /\ Len(cmds') = 2
                   /\ cmds'[1] = ReadCmd(args'.name)
                   /\ cmds'[2].kind = kind /\ cmds'[2].arg = args'.group
                   /\ cmds'[2].name = args'.name
                   /\ ret' = Bool(cmds'[2].rc = 0) ]_vars

C10_Witness ==
  /\ func = "removegroup" /\ pc = "idle"
  /\ Len(cmds) = 2 /\ cmds[2].kind = "localgroup /delete" /\ cmds[2].rc # 0
  /\ ret = Bool(FALSE)
  /\ args.group \in accounts[args.name].groups

\* C11: chgroups on an existing account whose groups, as a set, equal the
\* desired groups (a str split at its commas, order and repetition ignored)
\* issues no add or remove command and returns success.
C11_NoOpWhenEqual ==
  (/\ func = "chgroups" /\ accounts[args.name].exists
   /\ ugrps = Range(AsList(args.groups)))
    => (pc = "idle" /\ ret = Bool(TRUE) /\ cmds = <<ReadCmd(args.name)>>)

C11_Witness ==
  /\ func = "chgroups" /\ pc = "idle" /\ accounts[args.name].exists
  /\ args.groups.str /\ AsList(args.groups) = <<"Users", "Admins">>
  /\ ugrps = {"Admins", "Users"}
  /\ ret = Bool(TRUE) /\ cmds = <<ReadCmd(args.name)>>

\* C12 as stated: chgroups issues a remove command only for groups that are
\* current and not desired, and an add command only for groups that are
\* desired and not current.
C12_MinimalCommands ==
  func = "chgroups" =>
    \A i \in 1..Len(cmds) :
      /\ cmds[i].kind = "localgroup /delete"
           => cmds[i].arg \in ugrps \ Range(AsList(args.groups))
      /\ cmds[i].kind = "localgroup /add"
           => cmds[i].arg \in Range(AsList(args.groups)) \ ugrps

\* C12 amended: chgroups issues a remove command only for groups that are
\* current and an add command only for groups that are desired, and it issues
\* none of them when the current and the desired sets are equal.
C12_CommandsWithinSets ==
  func = "chgroups" =>
    /\ \A i \in 1..Len(cmds) :
         /\ Mutating(cmds[i])
              => cmds[i].kind \in {"localgroup /delete", "localgroup /add"}
         /\ cmds[i].kind = "localgroup /delete" => cmds[i].arg \in ugrps
         /\ cmds[i].kind = "localgroup /add"
              => cmds[i].arg \in Range(AsList(args.groups))
    /\ (accounts[args.name].exists /\ ugrps = Range(AsList(args.groups)))
         => NMut(cmds) = 0

C12_Witness ==
  /\ func = "chgroups" /\ pc = "idle" /\ ~args.append
  /\ \E i \in 1..Len(cmds) :
       /\ cmds[i].kind = "localgroup /delete"
       /\ cmds[i].arg \in ugrps \cap Range(AsList(args.groups))
  /\ \E i \in 1..Len(cmds) :
       /\ cmds[i].kind = "localgroup /add"
       /\ cmds[i].arg \in ugrps \cap Range(AsList(args.groups))

\* C13: delete called with purge or force set does not run the delete command
\* and does not return success.
C13_PurgeForceRejected ==
  (func = "delete" /\ (args.purge \/ args.force))
    => (NMut(cmds) = 0 /\ ret # Bool(TRUE))

\* C19: when chgroups has found the current and the desired sets different,
\* its add and remove commands are: without append, one remove for every group
\* read as current, all of them first; then, with or without append, one add
\* for every entry of the desired list.
C19_TeardownThenAdd ==
  (func = "chgroups" /\ pc = "idle" /\ Len(cmds) >= 2)
    => LET muts == SelectSeq(cmds, Mutating)
           nd == IF args.append THEN 0 ELSE Cardinality(ugrps)
           adds == AsList(args.groups)
       IN /\ Len(muts) = nd + Len(adds)
          /\ \A i \in 1..nd : muts[i].kind = "localgroup /delete"
          /\ {muts[i].arg : i \in 1..nd} = (IF args.append THEN {} ELSE ugrps)
          /\ \A j \in 1..Len(adds) :
               /\ muts[nd + j].kind = "localgroup /add"
               /\ muts[nd + j].arg = adds[j]
          /\ \A i \in 1..Len(muts) : muts[i].name = args.name

C19_Witness ==
  /\ func = "chgroups" /\ pc = "idle" /\ ~args.append
  /\ ugrps = {"Admins", "Users"}
  /\ AsList(args.groups) = <<"Users">>
  /\ Len(cmds) = 6
  /\ cmds[3].kind = "localgroup /delete" /\ cmds[4].kind = "localgroup /delete"
  /\ cmds[5].kind = "localgroup /add" /\ cmds[5].arg = "Users"

\* C20: when chgroups has issued its commands, it returns True if and only if
\* the account still holds, at the end, every group it held at the first read.
C20_ReturnIffOriginalKept ==
  (func = "chgroups" /\ pc = "idle" /\ Len(cmds) >= 2 /\ ret.tag = "bool")
    => (ret.val <=> ugrps \subseteq accounts[args.name].groups)

C20_Witness ==
  /\ func = "chgroups" /\ pc = "idle" /\ Len(cmds) >= 2
  /\ ret = Bool(FALSE)
  /\ Range(AsList(args.groups)) \subseteq accounts[args.name].groups
  /\ \A i \in 1..Len(cmds) : cmds[i].rc = 0

\* C14: when the text of an existing account (no not-found line) lacks a
\* label, info and list_groups raise the parse error to their caller.
C14_ParseErrorSurfaced ==
  (/\ parsed # None /\ func \in {"info", "list_groups"}
   /\ ~HasNotFound /\ ~AllLabels)
    => parsed.tag = "raise"

\* C15: when a line of the text contains 'name could not be found', info
\* returns the empty record, whatever the other lines are.
C15_NotFoundDetected ==
  (parsed # None /\ func = "info" /\ HasNotFound)
    => (parsed.tag = "dict" /\ parsed.val = EmptyDict)

C15_Witness ==
  /\ parsed # None /\ func = "info"
  /\ In(NotFoundMarker, stdout[Len(stdout)])
  /\ \A i \in 1..Len(stdout) :
       stdout[i] = << >> \/ stdout[i][1] # "Local Group Memberships"
  /\ parsed.tag = "dict" /\ parsed.val = EmptyDict

\* C16: the names getent reads are exactly the whitespace-delimited tokens of
\* the lines after the divider line, the trailing status line left out.
C16_EnumerationTokens ==
  (parsed # None /\ func = "getent")
    => LET d == Min({i \in 1..Len(stdout) : In(Divider, stdout[i])})
           RECURSIVE tokens(_)
           tokens(i) ==
             IF i > Len(stdout) THEN << >>
             ELSE IF stdout[i] = StatusLine THEN tokens(i + 1)
             ELSE wsplit(stdout[i]) \o tokens(i + 1)
       IN parsed.val = tokens(d + 1)

\* C17: list_groups on an existing account returns the groups info read,
\* each once, in ascending order.
C17_SortedDistinct ==
  (parsed # None /\ func = "list_groups" /\ parsed.tag = "list")
    => LET toks == Range(grouptokens(MembershipsText))
       IN /\ Range(parsed.val) = Range(info_lines(stdout).val.groups)
          /\ \E s \in Perms(toks) :
               /\ \A i \in 1..Len(s) : \A j \in 1..Len(s) :
                    i < j => StrLess(s[i], s[j])
               /\ parsed.val = [i \in 1..Len(s) |-> Join(s[i])]

C17_Witness ==
  /\ parsed # None /\ func = "list_groups" /\ parsed.tag = "list"
  /\ info_lines(stdout).val.groups = <<"Users", "Admins", "Users">>
  /\ parsed.val = <<"Admins", "Users">>

\* C18: list_groups returns False exactly when the account does not exist
\* (the text has the not-found line), and an empty list when the account
\* exists and its memberships text holds no name.
C18_NotFoundVsEmpty ==
  (parsed # None /\ func = "list_groups")
    => /\ (parsed.tag = "bool" /\ ~parsed.val) <=> HasNotFound
       /\ (~HasNotFound /\ AllLabels /\ grouptokens(MembershipsText) = << >>)
            => (parsed.tag = "list" /\ parsed.val = << >>)

====
